---- MODULE Spec2Model ----
(***************************************************************************)
(* Model of Backend/backend.py: the Recognition+ signup backend.           *)
(*                                                                         *)
(* The process runs startup_db_check, then serves requests.  Every signup  *)
(* request runs in its own worker thread and talks to the PostgreSQL store *)
(* through its own Session, so the handlers interleave at their store      *)
(* statements: the SELECT of the existence check, the INSERT that          *)
(* db.commit() flushes, and the COMMIT itself.                             *)
(* The store is the employees table as Employee declares it: a generated   *)
(* integer primary key and a UNIQUE email column.                          *)
(* The condition of the store (usable, unreachable, or refusing CREATE     *)
(* TABLE) is a property of the deployment and stays as it is for the run.  *)
(***************************************************************************)
EXTENDS Integers, Sequences, FiniteSets, TLC

(* ---------------------------------------------------------------- bounds *)

\* Number of HTTP requests the clients send during one run of the process.
NumReqs == 2

Reqs == 1..NumReqs

(* ---------------------------------------------------------------- inputs *)

\* An email is the sequence of its characters.
RawEmails == { <<"a", "@", "x">>, <<"b", "@", "x">>, <<"n", "o", "t">> }
Passwords == { "pw1", "pw2" }
Departments == { "Eng" }

Fields == { "email", "password", "department" }

FullBodies == [email : RawEmails, password : Passwords, department : Departments]

\* EmailStr: exactly one "@", with a non-empty local part and domain.
IsEmail(s) ==
    /\ Cardinality({ i \in DOMAIN s : s[i] = "@" }) = 1
    /\ s[1] # "@"
    /\ s[Len(s)] # "@"

\* A JSON body with one field absent.
Without(b, f) == [k \in (DOMAIN b) \ {f} |-> b[k]]

\* The request bodies the clients send: every field present, or one absent.
Bodies ==
    FullBodies \cup { Without(b, f) : b \in { x \in FullBodies : IsEmail(x.email) },
                                        f \in Fields }

(* ------------------------------------------------------------ validation *)

\* email declared as str instead of EmailStr: only presence is checked.
ValidationErrors_PlainStr(b) == { f \in Fields : f \notin DOMAIN b }

\* The fields of SignupRequest that fail validation for body b.
ValidationErrors(b) ==
    { f \in Fields : f \notin DOMAIN b }
        \cup (IF "email" \in DOMAIN b /\ ~IsEmail(b.email) THEN {"email"} ELSE {})

(* -------------------------------------------------------------- responses *)

\* An HTTP response: the status code and the JSON body.
Response(code, body) == [status |-> code, body |-> body]

NoResponse == Response(0, [none |-> TRUE])

\* SignupRequest rejected the body: the fields that failed.
ValidationError(fields) == Response(422, [fields |-> fields])

\* HTTPException(status_code=400, detail=...)
DuplicateAccount ==
    Response(400, [detail |-> "Account with this email already exists."])

\* An exception of the store that no handler catches: the server answers 500.
StoreError(kind) == Response(500, [error |-> kind])

\* The IntegrityError caught and turned into the duplicate-account error.
InsertFailure_Handled == DuplicateAccount

\* db.commit() stands in no try block: the IntegrityError of the INSERT
\* leaves the handler as it is.
InsertFailure == StoreError("IntegrityError")

\* The dictionary signup_employee returns, built from the refreshed row.
SignupSuccess(row) ==
    Response(200,
        [message |-> "Success! Account created and data saved to PostgreSQL.",
         employee_id |-> row.id,
         email |-> row.email,
         department |-> row.department])


(* ------------------------------------------------------------------ store *)

\* Condition of the PostgreSQL server behind DATABASE_URL for this run:
\* usable, unreachable (server down, wrong password), or reachable by a role
\* that may not create tables in the schema.
StoreConds == { "ok", "unreachable", "no_privilege" }

\* The employees that carry email e.
WithEmail(rs, e) == { row \in rs : row.email = e }

\* The filter compares the wrong way round.
QueryByEmail_Inverted(rs, e) == { row \in rs : row.email # e }

\* The first row the existence query returns, as a set of zero or one row.
QueryByEmail(rs, e) == WithEmail(rs, e)

\* The email column declared without unique=True.
UniqueViolation_Undeclared(rs, e) == FALSE

\* UNIQUE constraint of Employee.email: would inserting email e violate it?
UniqueViolation(rs, e) == WithEmail(rs, e) # {}

\* A primary key that is not generated anew for each INSERT.
NextId_Stuck(s) == 1

\* The primary key the store generates for the next INSERT.
NextId(s) == s + 1

\* The password hashed before it is stored.
Hash(p) == IF p = "pw1" THEN "h1" ELSE "h2"

NewEmployee_Hashed(data, id) ==
    [id |-> id,
     email |-> data.email,
     password_hash |-> Hash(data.password),
     department |-> data.department]

\* The Employee object signup_employee builds, with the id the INSERT returns.
NewEmployee(data, id) ==
    [id |-> id,
     email |-> data.email,
     password_hash |-> data.password,
     department |-> data.department]

\* A COMMIT that replaces the table's contents.
Commit_Truncating(rs, row) == {row}

\* COMMIT of a transaction that inserted row: the row joins the table.
Commit(rs, row) == rs \cup {row}

NoRow == [id |-> 0]

(* ------------------------------------------------------------------ state *)

VARIABLES
    storeCond,     \* condition of the store for this run
    tableExists,   \* the employees table exists in the store
    rows,          \* committed rows of the employees table
    seq,           \* last value of the primary-key sequence
    storeOps,      \* statements sent to the store, per client
    app,           \* "starting", "connected" (inside startup_db_check), "serving"
    startup,       \* outcome of startup_db_check
    createAll,     \* Base.metadata.create_all: "not_run", "returned", "raised"
    route,         \* the endpoint each request was sent to
    pc,            \* position of each request
    data,          \* the validated SignupRequest of each request
    dupAtStart,    \* the request's email was already committed when it started
    sess,          \* the open Session get_db holds for each request (0: none)
    pending,       \* the row a request has inserted and not yet committed
    result         \* the response of each request

storeVars == <<storeCond, tableExists, rows, seq, storeOps>>
startVars == <<app, startup, createAll>>
reqVars == <<route, pc, data, dupAtStart, sess, pending, result>>
vars == <<storeVars, startVars, reqVars>>

\* The Sessions that are open.
OpenSessions == { sess[r] : r \in DOMAIN sess } \ {0}

Clients == Reqs \cup {0}     \* 0 is startup_db_check

NoData == [email |-> <<>>]

Init ==
    /\ storeCond \in StoreConds
    /\ tableExists \in BOOLEAN
    /\ rows = {}
    /\ seq = 0
    /\ storeOps = [c \in Clients |-> 0]
    /\ app = "starting"
    /\ startup = "running"
    /\ createAll = "not_run"
    /\ route = [r \in Reqs |-> "none"]
    /\ pc = [r \in Reqs |-> "idle"]
    /\ data = [r \in Reqs |-> NoData]
    /\ dupAtStart = [r \in Reqs |-> FALSE]
    /\ sess = [r \in Reqs |-> 0]
    /\ pending = [r \in Reqs |-> NoRow]
    /\ result = [r \in Reqs |-> NoResponse]

(* ------------------------------------------------------- startup_db_check *)

Touch(c) == storeOps' = [storeOps EXCEPT ![c] = @ + 1]

\* An except clause that re-raises: the application does not start.
AfterStartupError_Reraise == "aborted"

\* Both except clauses print the error and fall off the end of the function.
AfterStartupError == "serving"

\* engine.connect(): raises OperationalError when the server is unreachable;
\* the handler prints the error and returns, and the application serves.
StartupConnect ==
    /\ app = "starting"
    /\ Touch(0)
    /\ IF storeCond = "unreachable"
         THEN /\ startup' = "operational_error"
              /\ app' = AfterStartupError
         ELSE /\ startup' = startup
              /\ app' = "connected"
    /\ UNCHANGED <<storeCond, tableExists, rows, seq, createAll, reqVars>>

\* Base.metadata.create_all(bind=engine): checks for the table and creates it
\* when absent; a role without the privilege gets an error that the second
\* except clause prints.
StartupCreateAll ==
    /\ app = "connected"
    /\ Touch(0)
    /\ IF tableExists
         THEN /\ createAll' = "returned"
              /\ startup' = "ok"
              /\ app' = "serving"
              /\ tableExists' = tableExists
         ELSE IF storeCond = "no_privilege"
         THEN /\ createAll' = "raised"
              /\ startup' = "other_error"
              /\ app' = AfterStartupError
              /\ tableExists' = tableExists
         ELSE /\ createAll' = "returned"
              /\ startup' = "ok"
              /\ app' = "serving"
              /\ tableExists' = TRUE
    /\ UNCHANGED <<storeCond, rows, seq, reqVars>>

(* -------------------------------------------------------------- get_db *)

\* SessionLocal(): a new Session object, distinct from every live Session; it
\* opens no connection by itself.
NewSession(live) == CHOOSE n \in 1..(Cardinality(live) + 1) : n \notin live

\* get_db without the finally clause: the Session stays open.
CloseSession_Leak(s) == s

\* db.close(): the Session is released.
CloseSession(s) == 0

(* ------------------------------------------------------- signup_employee *)

Finish(r, resp) ==
    /\ result' = [result EXCEPT ![r] = resp]
    /\ pc' = [pc EXCEPT ![r] = "exit"]

\* A request arrives: get_db yields a fresh Session, then the body is parsed
\* into SignupRequest.  A body that fails validation never enters the handler.
SignupStart(r, b) ==
    /\ app = "serving"
    /\ pc[r] = "idle"
    /\ route' = [route EXCEPT ![r] = "signup"]
    /\ sess' = [sess EXCEPT ![r] = NewSession(OpenSessions)]
    /\ IF ValidationErrors(b) # {}
         THEN /\ Finish(r, ValidationError(ValidationErrors(b)))
              /\ UNCHANGED <<data, dupAtStart>>
         ELSE /\ data' = [data EXCEPT ![r] = b]
              /\ dupAtStart' = [dupAtStart EXCEPT ![r] = WithEmail(rows, b.email) # {}]
              /\ pc' = [pc EXCEPT ![r] = "handler"]
              /\ result' = result
    /\ UNCHANGED <<storeVars, startVars, pending>>

\* db.query(Employee).filter(Employee.email == data.email).first()
SignupCheck(r) ==
    /\ pc[r] = "handler"
    /\ Touch(r)
    /\ IF storeCond = "unreachable"
         THEN Finish(r, StoreError("OperationalError"))
         ELSE IF ~tableExists
         THEN Finish(r, StoreError("ProgrammingError"))
         ELSE IF QueryByEmail(rows, data[r].email) # {}
         THEN Finish(r, DuplicateAccount)
         ELSE /\ pc' = [pc EXCEPT ![r] = "checked"]
              /\ result' = result
    /\ UNCHANGED <<storeCond, tableExists, rows, seq, startVars, route, data, dupAtStart,
                   sess, pending>>

\* Another transaction has inserted email e and not yet committed: the
\* store makes an INSERT of the same email wait for that transaction.
InsertWaits(r, e) ==
    \E o \in Reqs \ {r} : pc[o] = "flushed" /\ pending[o].email = e

\* db.add(new_employee); db.commit() flushes the INSERT.  The sequence value is
\* consumed even when the INSERT then violates the UNIQUE constraint.
SignupInsert(r) ==
    /\ pc[r] = "checked"
    /\ ~InsertWaits(r, data[r].email)
    /\ Touch(r)
    /\ seq' = NextId(seq)
    /\ IF UniqueViolation(rows, data[r].email)
         THEN /\ Finish(r, InsertFailure)
              /\ pending' = pending
         ELSE /\ pending' = [pending EXCEPT ![r] = NewEmployee(data[r], NextId(seq))]
              /\ pc' = [pc EXCEPT ![r] = "flushed"]
              /\ result' = result
    /\ UNCHANGED <<storeCond, tableExists, rows, startVars, route, data, dupAtStart,
                   sess>>

\* db.commit(): the COMMIT makes the inserted row durable; db.refresh() then
\* reads the row back by its id and the handler returns the dictionary.
SignupCommit(r) ==
    /\ pc[r] = "flushed"
    /\ storeOps' = [storeOps EXCEPT ![r] = @ + 2]
    /\ rows' = Commit(rows, pending[r])
    /\ \E row \in { x \in rows' : x.id = pending[r].id } :
          Finish(r, SignupSuccess(row))
    /\ UNCHANGED <<storeCond, tableExists, seq, startVars, route, data, dupAtStart,
                   sess, pending>>

\* The finally clause of get_db: db.close(), on every way out of the request.
SignupClose(r) ==
    /\ pc[r] = "exit"
    /\ sess' = [sess EXCEPT ![r] = CloseSession(@)]
    /\ pc' = [pc EXCEPT ![r] = "done"]
    /\ UNCHANGED <<storeVars, startVars, route, data, dupAtStart, pending, result>>

(* ------------------------------------------------- health_check, read_root *)

\* A health check that reports the condition of the store.
HealthPayload_Probe ==
    [status |-> IF storeCond = "unreachable" THEN "degraded" ELSE "ok",
     service |-> "FastAPI Backend"]

\* The dictionary health_check returns.
HealthPayload == [status |-> "ok", service |-> "FastAPI Backend"]

\* The dictionary read_root returns.
RootPayload ==
    [message |-> "Welcome to the Recognition+ API. Visit /docs for endpoints."]

\* A request with no dependency and no store access: the payload is returned.
Static(r, name, payload) ==
    /\ app = "serving"
    /\ pc[r] = "idle"
    /\ route' = [route EXCEPT ![r] = name]
    /\ result' = [result EXCEPT ![r] = Response(200, payload)]
    /\ pc' = [pc EXCEPT ![r] = "done"]
    /\ UNCHANGED <<storeVars, startVars, data, dupAtStart, sess, pending>>

health_check(r) == Static(r, "health", HealthPayload)

read_root(r) == Static(r, "root", RootPayload)

(* ---------------------------------------------------------- specification *)

Next ==
    \/ StartupConnect
    \/ StartupCreateAll
    \/ \E r \in Reqs, b \in Bodies : SignupStart(r, b)
    \/ \E r \in Reqs : SignupCheck(r)
    \/ \E r \in Reqs : SignupInsert(r)
    \/ \E r \in Reqs : SignupCommit(r)
    \/ \E r \in Reqs : SignupClose(r)
    \/ \E r \in Reqs : health_check(r)
    \/ \E r \in Reqs : read_root(r)

Spec == Init /\ [][Next]_vars

\* The server runs every request it has accepted to its end.
Handle(r) ==
    \/ SignupCheck(r)
    \/ SignupInsert(r)
    \/ SignupCommit(r)
    \/ SignupClose(r)

FairSpec == Spec /\ \A r \in Reqs : WF_vars(Handle(r))

(* ------------------------------------------------------------ properties *)

IsSignup(r) == route[r] = "signup"

\* The request entered the handler with a validated SignupRequest.
Validated(r) == IsSignup(r) /\ pc[r] # "idle" /\ result[r].status # 422

Answered(r) == pc[r] \in {"exit", "done"}

Succeeded(r) == IsSignup(r) /\ result[r].status = 200

IsDuplicateError(resp) ==
    /\ resp.status = 400
    /\ resp.body.detail = "Account with this email already exists."

IsIntegrityError(resp) ==
    /\ resp.status = 500
    /\ resp.body.error = "IntegrityError"

\* The request sent the INSERT of its row to the store, or is about to.
AttemptedInsert(r) == IsSignup(r) /\ (pc[r] = "checked" \/ storeOps[r] >= 2)

SameEmail(r, o) == Validated(r) /\ Validated(o) /\ data[r].email = data[o].email

\* C1: in every reachable state, whatever the order and interleaving of the
\* check, insert and commit steps of the signup requests, no two rows of the
\* employees table carry the same email.
C1_UniqueEmail ==
    \A x \in rows, y \in rows : x.email = y.email => x = y

\* Two requests for one email have both passed the existence check and one of
\* them has committed its row.
C1_Witness ==
    \E r \in Reqs, o \in Reqs :
        /\ r # o
        /\ SameEmail(r, o)
        /\ pc[r] = "exit"
        /\ pc[o] = "checked"
        /\ pending[r] \in rows

\* C2: a signup request that starts when a row with its email is already
\* committed never passes the existence check; it is answered with HTTP 400 and
\* the detail "Account with this email already exists.", it inserts nothing and
\* the table keeps exactly one row for that email.
C2_SecondSignupIsDuplicate ==
    \A r \in Reqs :
        (Validated(r) /\ dupAtStart[r]) =>
            /\ pc[r] \in {"handler", "exit", "done"}
            /\ Answered(r) => IsDuplicateError(result[r])
            /\ storeOps[r] <= 1
            /\ pending[r] = NoRow
            /\ Cardinality(WithEmail(rows, data[r].email)) = 1

\* A signup succeeded, a second one for the same email started afterwards
\* and has been answered.
C2_Witness ==
    \E r \in Reqs, o \in Reqs :
        /\ r # o
        /\ Succeeded(o) /\ pc[o] = "done"
        /\ SameEmail(r, o)
        /\ dupAtStart[r]
        /\ pc[r] = "done"

\* What a successful signup returns and leaves in the store.
SuccessShape(r) ==
    LET b == result[r].body IN
        /\ b.employee_id = pending[r].id
        /\ b.email = data[r].email
        /\ b.department = data[r].department
        /\ \E row \in rows :
              /\ row.id = b.employee_id
              /\ row.email = data[r].email
              /\ row.department = data[r].department

\* The request lost the race for its email: another request committed the
\* same email after this one had passed the existence check.
LostRace(r) ==
    /\ IsIntegrityError(result[r])
    /\ pending[r] = NoRow
    /\ \E o \in Reqs \ {r} : pending[o] \in rows /\ pending[o].email = data[r].email

\* C3 as stated: every valid signup request whose existence check found no
\* row with its email succeeds, and the store then holds its row.
C3_Original ==
    \A r \in Reqs :
        (Validated(r) /\ pc[r] = "done" /\ AttemptedInsert(r)) =>
            Succeeded(r) /\ SuccessShape(r)

\* Every row a COMMIT adds carries an identifier no row had before.
FreshIdentifier ==
    \A x \in rows' \ rows : x.id \notin { y.id : y \in rows }

C3_Answers ==
    \A r \in Reqs :
        /\ Succeeded(r) => SuccessShape(r)
        /\ (Validated(r) /\ pc[r] = "done" /\ AttemptedInsert(r)) =>
              Succeeded(r) \/ LostRace(r)
        /\ (Validated(r) /\ pc[r] = "done" /\ ~AttemptedInsert(r)) =>
              ~Succeeded(r)

\* C3 (amended): a valid signup request whose existence check finds no row
\* with its email succeeds unless a concurrent signup commits the same email
\* before its insert, in which case it fails with the store's uniqueness error
\* and adds no row.  Every signup that succeeds returns an employee_id that no
\* row had before its row was committed, the store then holds a row with that
\* identifier and the request's email and department, and the response echoes
\* that email and department.
C3_ValidSignup == []C3_Answers /\ [][FreshIdentifier]_vars

\* Two signups with different emails have both succeeded.
C3_Witness ==
    \E r \in Reqs, o \in Reqs :
        /\ r # o
        /\ Succeeded(r) /\ Succeeded(o)
        /\ pc[r] = "done" /\ pc[o] = "done"
        /\ Cardinality(rows) = 2

HasAt(e) == \E i \in DOMAIN e : e[i] = "@"

\* C4: a signup request whose body fails validation (an email that is no
\* address, or an absent email, password or department) is answered with the
\* validation error and sends no statement to the store; only a body with all
\* three fields and a well-formed email ever reaches the store.
C4_InvalidNeverReachesStore ==
    \A r \in Reqs :
        IsSignup(r) =>
            /\ result[r].status = 422 =>
                  /\ result[r].body.fields # {}
                  /\ storeOps[r] = 0
                  /\ pending[r] = NoRow
                  /\ data[r] = NoData
            /\ data[r] = NoData => result[r].status = 422
            /\ data[r] # NoData =>
                  /\ DOMAIN data[r] = Fields
                  /\ HasAt(data[r].email)

\* A malformed email and an absent field have both been rejected while the
\* table holds no row.
C4_Witness ==
    \E r \in Reqs, o \in Reqs :
        /\ pc[r] = "done" /\ pc[o] = "done"
        /\ IsSignup(r) /\ IsSignup(o)
        /\ result[r].status = 422 /\ result[r].body.fields = {"email"}
        /\ result[o].status = 422 /\ result[o].body.fields = {"department"}
        /\ tableExists /\ rows = {}

\* C5: every request to the health endpoint is answered with status "ok",
\* whatever the condition of the store and the outcome of the startup check,
\* and it sends no statement to the store and opens no Session.
C5_HealthAlwaysOk ==
    \A r \in Reqs :
        route[r] = "health" =>
            /\ result[r].status = 200
            /\ result[r].body.status = "ok"
            /\ storeOps[r] = 0
            /\ sess[r] = 0

\* The health endpoint has answered although the store is unreachable and the
\* startup check failed.
C5_Witness ==
    \E r \in Reqs :
        /\ route[r] = "health"
        /\ pc[r] = "done"
        /\ storeCond = "unreachable"
        /\ startup = "operational_error"

\* Rows are never removed or altered, and a step adds at most the one row
\* that the committing request inserted.
RowsOnlyGrow ==
    /\ rows \subseteq rows'
    /\ rows' # rows =>
          \E r \in Reqs :
              /\ pc[r] = "flushed" /\ pc'[r] = "exit"
              /\ pending[r] \notin rows
              /\ rows' = rows \cup {pending[r]}

\* Every row was added by a signup, and a signup that added a row succeeds.
RowsComeFromSuccess ==
    /\ \A row \in rows : \E r \in Reqs : IsSignup(r) /\ pending[r] = row
    /\ \A r \in Reqs : (pending[r] \in rows /\ Answered(r)) => Succeeded(r)
    /\ \A r \in Reqs : (Answered(r) /\ ~Succeeded(r)) => pending[r] = NoRow

C7_PasswordStoredVerbatim ==
    \A r \in Reqs :
        /\ pending[r] # NoRow => pending[r].password_hash = data[r].password
        /\ Succeeded(r) =>
              \E row \in rows :
                  /\ row.id = result[r].body.employee_id
                  /\ row.password_hash = data[r].password

\* Two signups with different passwords have succeeded.
C7_Witness ==
    \E r \in Reqs, o \in Reqs :
        /\ Succeeded(r) /\ Succeeded(o)
        /\ data[r].password = "pw1"
        /\ data[o].password = "pw2"

\* The one request that committed the row for the email of r.
Winner(r) ==
    { w \in Reqs : Validated(w) /\ pending[w] \in rows
                      /\ pending[w].email = data[r].email }

\* C8: two signup requests for the same email can both pass the existence
\* check and both attempt the insert.  Of the requests that race for an email
\* exactly one commits a row; once two of them are answered, the table holds one
\* row for that email, and each of the two that did not commit it was answered
\* 500 with the IntegrityError of the store, not with the duplicate-account
\* error.
C8_RaceLeavesOneRow ==
    \A r \in Reqs, o \in Reqs :
        (r # o /\ AttemptedInsert(r) /\ AttemptedInsert(o) /\ SameEmail(r, o)) =>
            /\ Cardinality(WithEmail(rows, data[r].email)) <= 1
            /\ ~(pending[r] \in rows /\ pending[o] \in rows)
            /\ (pc[r] = "done" /\ pc[o] = "done") =>
                  /\ Cardinality(WithEmail(rows, data[r].email)) = 1
                  /\ Cardinality(Winner(r)) = 1
                  /\ \A x \in {r, o} :
                        IF x \in Winner(r)
                          THEN Answered(x) => Succeeded(x)
                          ELSE IsIntegrityError(result[x])

\* Both requests of a race have been answered: one row, one success, one
\* IntegrityError.
C8_Witness ==
    \E r \in Reqs, o \in Reqs :
        /\ r # o
        /\ SameEmail(r, o)
        /\ ~dupAtStart[r] /\ ~dupAtStart[o]
        /\ pc[r] = "done" /\ pc[o] = "done"
        /\ Succeeded(r)
        /\ IsIntegrityError(result[o])

InHandler(r) ==
    IsSignup(r) /\ pc[r] \in {"handler", "checked", "flushed", "exit"}

SessionScoped ==
    \A r \in Reqs :
        /\ InHandler(r) => sess[r] # 0
        /\ pc[r] \in {"idle", "done"} => sess[r] = 0
        /\ \A o \in Reqs \ {r} : sess[r] # 0 => sess[o] # sess[r]

\* C9: every signup request holds a Session of its own from its start, no two
\* requests hold the same Session, no Session is open once its request has
\* finished, and every Session that was opened is eventually closed, on the
\* success path, the duplicate-account path, the validation path and the
\* paths on which the store raised an error: the clients send finitely many
\* requests, so from some point on no Session is open.
C9_SessionClosed ==
    /\ []SessionScoped
    /\ <>[](\A r \in Reqs : sess[r] = 0)

\* A request that ended in an error of the store at commit and one that
\* succeeded have both finished and released their Sessions.
C9_Witness ==
    \E r \in Reqs, o \in Reqs :
        /\ pc[r] = "done" /\ IsIntegrityError(result[r])
        /\ pc[o] = "done" /\ Succeeded(o)
        /\ sess[r] = 0 /\ sess[o] = 0

StartupFailed == startup \in {"operational_error", "other_error"}

\* What the degraded state means for the requests.
DegradedService ==
    /\ app = "serving"
    /\ rows = {}
    /\ \A r \in Reqs :
          /\ (IsSignup(r) /\ storeOps[r] > 0) =>
                /\ Answered(r)
                /\ result[r].status = 500
                /\ storeOps[r] = 1
                /\ pending[r] = NoRow
          /\ route[r] \in {"health", "root"} => result[r].status = 200
          /\ pc[r] = "idle" => ENABLED health_check(r) /\ ENABLED read_root(r)

\* C10 as stated: after a failed startup check the process serves, the
\* table-creation step has not run, a signup that uses the store fails
\* without creating a row, and health and root answer.
C10_Original ==
    StartupFailed => (createAll = "not_run" /\ DegradedService)

\* C10 (amended): after a failed startup check the process serves; the
\* table-creation step has not created the table: it was not reached when the
\* connection failed, and it ran and raised when the store refused it; a signup
\* that uses the store fails without creating a row, and health and root answer.
C10_DegradedStartup ==
    StartupFailed =>
        /\ createAll \in {"not_run", "raised"}
        /\ startup = "operational_error" => createAll = "not_run"
        /\ startup = "other_error" => (createAll = "raised" /\ ~tableExists)
        /\ DegradedService

\* After a startup check that failed in create_all, a signup was answered
\* with an error and the health endpoint answered.
C10_Witness ==
    \E r \in Reqs, o \in Reqs :
        /\ startup = "other_error"
        /\ IsSignup(r) /\ pc[r] = "done" /\ result[r].status = 500
        /\ route[o] = "health" /\ pc[o] = "done"

====
